---------------------------- MODULE Spec2Model ----------------------------
(***************************************************************************)
(* IntentSelectionModel (cura/Machines/Models/IntentSelectionModel.py):    *)
(* a list model that publishes one display row per available intent        *)
(* category, recomputed by _update on signals of the container registry,   *)
(* the machine manager and the extruder manager, and on the timeout of a   *)
(* single-shot timer started by the constructor.                           *)
(*                                                                         *)
(* Strings that the code transforms (category identifiers, names) are      *)
(* tuples of one-character strings, so that str.title() is computed.       *)
(* Strings that the code only passes on (icons, descriptions, log lines)   *)
(* are TLA+ strings.                                                       *)
(***************************************************************************)
EXTENDS Integers, Sequences, FiniteSets

VARIABLES
    global_stack,           \* getGlobalContainerStack(): None or a stack
    materials_compatible,   \* activeMaterialsCompatible()
    available_categories,   \* currentAvailableIntentCategories()
    items,                  \* ListModel items, as set by setItems
    timer_active,           \* _update_timer.isActive()
    log,                    \* Logger.log messages of the last handler run
    event,                  \* the last signal delivered to the model
    burst,                  \* trigger signals delivered in the timer's window
    recomputes              \* _update runs in the timer's window

vars == <<global_stack, materials_compatible, available_categories, items,
          timer_active, log, event, burst, recomputes>>

---------------------------------------------------------------------------
(* Bounds of the model.                                                    *)

\* Longest list of available categories the intent manager returns.
MaxLen == 3

\* Number of category identifiers that are not in the static table.
NumUnknown == 2

\* Trigger signals counted in one timer window (the counter saturates).
MaxBurst == 2

---------------------------------------------------------------------------
(* Values.                                                                 *)

None == "None"

GlobalStack == "GlobalStack"

LowerChars ==
    <<"a","b","c","d","e","f","g","h","i","j","k","l","m",
      "n","o","p","q","r","s","t","u","v","w","x","y","z">>

UpperChars ==
    <<"A","B","C","D","E","F","G","H","I","J","K","L","M",
      "N","O","P","Q","R","S","T","U","V","W","X","Y","Z">>

IsLower(c) == \E i \in 1..Len(LowerChars) : LowerChars[i] = c

IsUpper(c) == \E i \in 1..Len(UpperChars) : UpperChars[i] = c

IsCased(c) == IsLower(c) \/ IsUpper(c)

ToUpper(c) ==
    IF IsLower(c)
    THEN UpperChars[CHOOSE i \in 1..Len(LowerChars) : LowerChars[i] = c]
    ELSE c

ToLower(c) ==
    IF IsUpper(c)
    THEN LowerChars[CHOOSE i \in 1..Len(UpperChars) : UpperChars[i] = c]
    ELSE c

\* str.title(): a cased character is upper-cased when the character before
\* it is not cased (or there is none) and lower-cased otherwise; uncased
\* characters are kept.
title(s) ==
    [i \in 1..Len(s) |->
        IF i > 1 /\ IsCased(s[i-1]) THEN ToLower(s[i]) ELSE ToUpper(s[i])]

---------------------------------------------------------------------------
(* The static table of _getDefaultProfileInformation, in insertion order.  *)
(* The entry of "default" has no "description" key.                        *)

_getDefaultProfileInformation ==
    << [key  |-> <<"d","e","f","a","u","l","t">>,
        info |-> [name |-> <<"D","e","f","a","u","l","t">>,
                  icon |-> "GearCheck"]],
       [key  |-> <<"v","i","s","u","a","l">>,
        info |-> [name |-> <<"V","i","s","u","a","l">>,
                  description |-> "The visual profile is designed to print visual prototypes and models with the intent of high visual and surface quality.",
                  icon |-> "Visual"]],
       [key  |-> <<"e","n","g","i","n","e","e","r","i","n","g">>,
        info |-> [name |-> <<"E","n","g","i","n","e","e","r","i","n","g">>,
                  description |-> "The engineering profile is designed to print functional prototypes and end-use parts with the intent of better accuracy and for closer tolerances.",
                  icon |-> "Nut"]],
       [key  |-> <<"q","u","i","c","k">>,
        info |-> [name |-> <<"D","r","a","f","t">>,
                  description |-> "The draft profile is designed to print initial prototypes and concept validation with the intent of significant print time reduction.",
                  icon |-> "SpeedOMeter"]],
       [key  |-> <<"a","n","n","e","a","l","i","n","g">>,
        info |-> [name |-> <<"A","n","n","e","a","l","i","n","g">>,
                  description |-> "The annealing profile requires post-processing in an oven after the print is finished. This profile retains the dimensional accuracy of the printed part after annealing and improves strength, stiffness, and thermal resistance.",
                  icon |-> "Anneal"]] >>

\* list(default_profile_info.keys())
keys(d) == [i \in 1..Len(d) |-> d[i].key]

\* key in dict
contains(d, k) == \E i \in 1..Len(d) : d[i].key = k

\* list.index(x): the zero-based position of the first x (ValueError is
\* the caller's ELSE branch, guarded by contains).
index(l, x) == (CHOOSE i \in 1..Len(l) : l[i] = x /\ \A j \in 1..(i-1) : l[j] # x) - 1

\* dict.get(k, default) on the ordered table
lookup(d, k, default) ==
    IF contains(d, k) THEN d[index(keys(d), k) + 1].info ELSE default

\* dict.get(k, default) on one entry of the table; {} is EmptyDict
get(info, k, default) == IF k \in DOMAIN info THEN info[k] ELSE default

EmptyDict == [k \in {} |-> None]

---------------------------------------------------------------------------
(* The categories the intent manager can report: the identifiers of the    *)
(* static table and NumUnknown identifiers that are not in it.             *)

UnknownPool ==
    << <<"a","b","s">>,
       <<"h","i","_","r","e","s">>,
       <<"f","a","s","T">>,
       <<"x","2","y">> >>

UnknownCategories == {UnknownPool[i] : i \in 1..NumUnknown}

KnownCategories == {_getDefaultProfileInformation[i].key :
                        i \in 1..Len(_getDefaultProfileInformation)}

Categories == KnownCategories \cup UnknownCategories

\* The intent manager reports every category once, in any order.
CategoryLists ==
    {l \in UNION {[1..n -> Categories] : n \in 0..MaxLen} :
        \A i, j \in 1..Len(l) : i # j => l[i] # l[j]}

\* Metadata "type" of the containers the registry adds and removes.
ContainerTypes == {"intent", "material"}

---------------------------------------------------------------------------
(* _update, lines 96-133.                                                  *)

\* Variant: a listed category weighted by its enumeration index.
weight_byEnumeration(default_profile_info, available, i, category) ==
    IF contains(default_profile_info, category)
    THEN i
    ELSE Len(available) + i

\* Variant: unlisted categories weighted in descending enumeration order.
weight_descending(default_profile_info, available, i, category) ==
    IF contains(default_profile_info, category)
    THEN index(keys(default_profile_info), category)
    ELSE Len(available) + (Len(available) - i)

\* Lines 118-121; i is the zero-based index of enumerate.
weight(default_profile_info, available, i, category) ==
    IF contains(default_profile_info, category)
    THEN index(keys(default_profile_info), category)
    ELSE Len(available) + i

\* Lines 116-129: the row appended for available[i+1].
row(default_profile_info, available, i) ==
    LET category     == available[i + 1]
        profile_info == lookup(default_profile_info, category, EmptyDict)
    IN  [name            |-> get(profile_info, "name", title(category)),
         description     |-> get(profile_info, "description", None),
         icon            |-> get(profile_info, "icon", ""),
         intent_category |-> category,
         weight          |-> weight(default_profile_info, available, i, category)]

\* Variant: a row whose weight is already present is dropped.
insert_unique(sorted, r) ==
    IF \E j \in 1..Len(sorted) : sorted[j].weight = r.weight
    THEN sorted
    ELSE LET k == Cardinality({j \in 1..Len(sorted) : sorted[j].weight < r.weight})
         IN  SubSeq(sorted, 1, k) \o <<r>> \o SubSeq(sorted, k + 1, Len(sorted))

\* list.sort(key = weight) is stable: a row goes after the rows of smaller
\* or equal weight that precede it.
insert(sorted, r) ==
    LET k == Cardinality({j \in 1..Len(sorted) : sorted[j].weight <= r.weight})
    IN  SubSeq(sorted, 1, k) \o <<r>> \o SubSeq(sorted, k + 1, Len(sorted))

\* Variant: the list is published in enumeration order.
sort_none(result) == result

RECURSIVE sort(_)

sort(result) ==
    IF result = << >>
    THEN << >>
    ELSE insert(sort(SubSeq(result, 1, Len(result) - 1)), result[Len(result)])

\* Variant: the material compatibility is not checked.
_update_noCompatibility(stack, compatible, available) ==
    IF stack = None THEN << >>
    ELSE sort([i \in 1..Len(available) |->
                  row(_getDefaultProfileInformation, available, i - 1)])

\* The list _update passes to setItems.
_update(stack, compatible, available) ==
    IF stack = None THEN << >>
    ELSE IF ~compatible THEN << >>
    ELSE sort([i \in 1..Len(available) |->
                  row(_getDefaultProfileInformation, available, i - 1)])

\* The messages _update passes to Logger.log.
updateLog(stack, compatible) ==
    IF stack = None
    THEN <<"Updating IntentSelectionModel.",
           "No active GlobalStack, set quality profile model as empty.">>
    ELSE IF ~compatible
    THEN <<"Updating IntentSelectionModel.",
           "No active material compatibility, set quality profile model as empty.">>
    ELSE <<"Updating IntentSelectionModel.">>

---------------------------------------------------------------------------
(* The environment: what the collaborators may do when they emit a signal. *)

Range(l) == {l[i] : i \in 1..Len(l)}

\* An intent profile was added: the available categories may gain one.
Gained(l) ==
    {l} \cup
    IF Len(l) < MaxLen
    THEN {SubSeq(l, 1, p) \o <<c>> \o SubSeq(l, p + 1, Len(l)) :
              c \in Categories \ Range(l), p \in 0..Len(l)}
    ELSE {}

\* An intent profile was removed: the available categories may lose one.
Lost(l) ==
    {l} \cup {SubSeq(l, 1, p - 1) \o SubSeq(l, p + 1, Len(l)) : p \in 1..Len(l)}

---------------------------------------------------------------------------
(* The handlers.                                                           *)

\* The state after __init__: nothing published, the timer started by
\* _onChange, whatever the collaborators hold.
Init ==
    /\ global_stack \in {None, GlobalStack}
    /\ materials_compatible \in BOOLEAN
    /\ available_categories \in CategoryLists
    /\ items = << >>
    /\ timer_active = TRUE
    /\ log = << >>
    /\ event = [signal |-> "init", type |-> None]
    /\ burst = 0
    /\ recomputes = 0

\* The window of the timer runs from its start to its timeout.  burst and
\* recomputes count the trigger signals and the runs of _update of that
\* window, the run made by the timeout included; they saturate, and the
\* first signal after the timeout clears them.

\* One more trigger signal, if the timer is running.
CountTrigger ==
    burst' = IF ~timer_active THEN 0
             ELSE IF burst < MaxBurst THEN burst + 1 ELSE burst

\* No trigger signal.
KeepBurst ==
    burst' = IF ~timer_active THEN 0 ELSE burst

\* One more run of _update, if the timer is running.
CountUpdate ==
    recomputes' = IF ~timer_active THEN 0
                  ELSE IF recomputes <= MaxBurst THEN recomputes + 1 ELSE recomputes

\* No run of _update.
KeepRecomputes ==
    recomputes' = IF ~timer_active THEN 0 ELSE recomputes

\* _update as a slot: it reads the collaborators as they are once the
\* signal is emitted, logs and publishes.
Update ==
    /\ log' = updateLog(global_stack', materials_compatible')
    /\ items' = _update(global_stack', materials_compatible', available_categories')
    /\ CountUpdate

\* Variant: the container's type is not looked at.
_onContainerChange_anyType(container) == Update

\* Lines 87-91.
_onContainerChange(container) ==
    IF container.type = "intent"
    THEN Update
    ELSE /\ log' = << >>
         /\ UNCHANGED items
         /\ KeepRecomputes

\* ContainerRegistry.containerAdded, line 39.
containerAdded(container) ==
    /\ available_categories' \in
           IF container.type = "intent" THEN Gained(available_categories)
           ELSE {available_categories}
    /\ UNCHANGED <<global_stack, materials_compatible, timer_active>>
    /\ event' = [signal |-> "containerAdded", type |-> container.type]
    /\ IF container.type = "intent" THEN CountTrigger ELSE KeepBurst
    /\ _onContainerChange(container)

\* ContainerRegistry.containerRemoved, line 40.
containerRemoved(container) ==
    /\ available_categories' \in
           IF container.type = "intent" THEN Lost(available_categories)
           ELSE {available_categories}
    /\ UNCHANGED <<global_stack, materials_compatible, timer_active>>
    /\ event' = [signal |-> "containerRemoved", type |-> container.type]
    /\ IF container.type = "intent" THEN CountTrigger ELSE KeepBurst
    /\ _onContainerChange(container)

\* What a signal of the machine manager may announce: the active materials
\* are, or are no longer, compatible.
MachineChange ==
    /\ materials_compatible' \in BOOLEAN
    /\ UNCHANGED <<global_stack, available_categories, timer_active>>

\* What the signal of the extruder manager may announce: the extruders of
\* another active machine, or of none.
ExtrudersChange ==
    /\ global_stack' \in {None, GlobalStack}
    /\ UNCHANGED <<materials_compatible, available_categories, timer_active>>

\* machine_manager.activeMaterialChanged, line 42.
activeMaterialChanged ==
    /\ MachineChange
    /\ event' = [signal |-> "activeMaterialChanged", type |-> None]
    /\ CountTrigger
    /\ Update

\* machine_manager.activeVariantChanged, line 43.
activeVariantChanged ==
    /\ MachineChange
    /\ event' = [signal |-> "activeVariantChanged", type |-> None]
    /\ CountTrigger
    /\ Update

\* machine_manager.extruderChanged, line 44.
extruderChanged ==
    /\ MachineChange
    /\ event' = [signal |-> "extruderChanged", type |-> None]
    /\ CountTrigger
    /\ Update

\* Variant: the signal is not connected.
extrudersChanged_unconnected ==
    /\ ExtrudersChange
    /\ event' = [signal |-> "extrudersChanged", type |-> None]
    /\ CountTrigger
    /\ UNCHANGED <<items, log>>
    /\ KeepRecomputes

\* extruder_manager.extrudersChanged, line 47.
extrudersChanged ==
    /\ ExtrudersChange
    /\ event' = [signal |-> "extrudersChanged", type |-> None]
    /\ CountTrigger
    /\ Update

\* _update_timer.timeout, lines 49-52: single shot.
timeout ==
    /\ timer_active
    /\ timer_active' = FALSE
    /\ UNCHANGED <<global_stack, materials_compatible, available_categories, burst>>
    /\ event' = [signal |-> "timeout", type |-> None]
    /\ Update

Next ==
    \/ \E t \in ContainerTypes : containerAdded([type |-> t])
    \/ \E t \in ContainerTypes : containerRemoved([type |-> t])
    \/ activeMaterialChanged
    \/ activeVariantChanged
    \/ extruderChanged
    \/ extrudersChanged
    \/ timeout

Spec == Init /\ [][Next]_vars

\* The step that stops the single-shot timer; timeout is the only action
\* of Next that takes it, and it is enabled whenever the timer is active.
timerFires == timer_active /\ timer_active' = FALSE

\* The event loop is running: a started timer times out.  Under Spec this
\* is WF_vars(timeout).
FairSpec == Spec /\ WF_timer_active(timerFires)

TypeOK ==
    /\ global_stack \in {None, GlobalStack}
    /\ materials_compatible \in BOOLEAN
    /\ available_categories \in CategoryLists
    /\ timer_active \in BOOLEAN
    /\ burst \in 0..MaxBurst
    /\ recomputes \in 0..(MaxBurst + 1)

---------------------------------------------------------------------------
(* Vocabulary of the properties.                                           *)

Table == _getDefaultProfileInformation

IsKnown(category) == category \in KnownCategories

\* _update ran in the last handler.
Recomputed == log # << >>

\* _update ran in the last handler and took the path of lines 111-133.
RecomputedRows ==
    Recomputed /\ global_stack # None /\ materials_compatible

\* The last signal delivered is one of the six triggers.
IsTrigger ==
    \/ event.signal \in {"activeMaterialChanged", "activeVariantChanged",
                         "extruderChanged", "extrudersChanged"}
    \/ event.signal \in {"containerAdded", "containerRemoved"} /\ event.type = "intent"

IsOtherContainer ==
    event.signal \in {"containerAdded", "containerRemoved"} /\ event.type # "intent"

intent_categories(rows) == [i \in 1..Len(rows) |-> rows[i].intent_category]

Count(l, x) == Cardinality({i \in 1..Len(l) : l[i] = x})

\* The rows of the published list were reordered by the sort.
Reordered ==
    /\ Len(items) = Len(available_categories)
    /\ intent_categories(items) # available_categories

---------------------------------------------------------------------------
(* C1: two or more trigger signals delivered while the timer started by    *)
(* one start is still running make _update run exactly once for the whole  *)
(* burst: not at all before the timer times out, and once when it does.    *)

C1_OneRecomputePerBurst ==
    burst >= 2 => recomputes = (IF timer_active THEN 0 ELSE 1)

(* C2: after a run of _update with no active global stack, or with active  *)
(* materials that are not compatible, the published list is empty.         *)

C2_EmptyWithoutStackOrCompatibility ==
    (Recomputed /\ (global_stack = None \/ ~materials_compatible))
        => items = << >>

C2_Witness ==
    /\ event.signal = "activeMaterialChanged"
    /\ Recomputed
    /\ global_stack = GlobalStack
    /\ ~materials_compatible
    /\ Len(available_categories) >= 2
    /\ items = << >>

(* C3: in the published list every row of a category of the static table   *)
(* comes before every row of a category that is not in the table.          *)

C3_KnownBeforeUnknown ==
    \A i, j \in 1..Len(items) :
        (IsKnown(items[i].intent_category) /\ ~IsKnown(items[j].intent_category))
            => i < j

(* C4: after a run of _update, the row of a category that is not in the    *)
(* static table has the title-cased identifier as name, an empty icon, no  *)
(* description, and the weight (size of the table + enumeration index),    *)
(* which is at least the size of the table.                                *)

C4_UnknownRow ==
    RecomputedRows =>
        \A k \in 1..Len(items) :
            LET r == items[k]
            IN  ~IsKnown(r.intent_category) =>
                    /\ r.name = title(r.intent_category)
                    /\ r.icon = ""
                    /\ r.description = None
                    /\ r.weight = Len(Table) + index(available_categories, r.intent_category)
                    /\ r.weight >= Len(Table)

(* C5: the published list is always sorted by weight, non-decreasing.      *)

C5_SortedByWeight ==
    \A k \in 1..(Len(items) - 1) : items[k].weight <= items[k + 1].weight

C5_Witness ==
    /\ RecomputedRows
    /\ Reordered
    /\ \E k \in 1..(Len(items) - 1) : items[k].weight = items[k + 1].weight

(* C6: a containerAdded or containerRemoved signal for a container whose   *)
(* type is not "intent" runs no _update and leaves the published list and  *)
(* the timer as they are; one for an "intent" container runs _update.      *)

C6_OnlyIntentContainersRecompute ==
    [][ /\ IsOtherContainer' =>
            (~Recomputed' /\ items' = items /\ timer_active' = timer_active)
        /\ (event'.signal \in {"containerAdded", "containerRemoved"}
                /\ event'.type = "intent") => Recomputed'
      ]_vars

C6_Witness ==
    /\ IsOtherContainer
    /\ ~Recomputed
    /\ items # << >>
    /\ timer_active

(* C7: the row of a category of the static table carries the table's name, *)
(* description (none when the table gives none) and icon, and its weight   *)
(* is the zero-based position of the category in the table.                *)

C7_KnownRow ==
    \A k \in 1..Len(items) :
        \A p \in 1..Len(Table) :
            items[k].intent_category = Table[p].key =>
                /\ items[k].name = Table[p].info.name
                /\ items[k].icon = Table[p].info.icon
                /\ items[k].description =
                       (IF "description" \in DOMAIN Table[p].info
                        THEN Table[p].info.description ELSE None)
                /\ items[k].weight = p - 1

C7_Witness ==
    /\ RecomputedRows
    /\ Len(items) = MaxLen
    /\ \A k \in 1..Len(items) : IsKnown(items[k].intent_category)
    /\ Reordered
    /\ \E k \in 1..Len(items) : items[k].description = None

(* C8: every trigger signal runs _update, the timer started by the         *)
(* constructor times out and runs it too, and from then on the published   *)
(* list is the result of _update for what the collaborators hold.          *)

C8_TriggersRecompute ==
    /\ [](IsTrigger => Recomputed)
    /\ <>(~timer_active)
    /\ <>[](items = _update(global_stack, materials_compatible, available_categories))

C8_Witness ==
    /\ event.signal = "extrudersChanged"
    /\ ~timer_active
    /\ Recomputed
    /\ items # << >>
    /\ items = _update(global_stack, materials_compatible, available_categories)

(* C9: two categories that are both absent from the static table have     *)
(* their rows in the order in which the intent manager lists them.         *)

C9_UnknownKeepOrder ==
    RecomputedRows =>
        \A i, j \in 1..Len(available_categories) :
            (/\ i < j
             /\ ~IsKnown(available_categories[i])
             /\ ~IsKnown(available_categories[j]))
                => \E k, l \in 1..Len(items) :
                       /\ k < l
                       /\ items[k].intent_category = available_categories[i]
                       /\ items[l].intent_category = available_categories[j]
                       /\ items[k].weight < items[l].weight

C9_Witness ==
    /\ RecomputedRows
    /\ Reordered
    /\ Cardinality({i \in 1..Len(available_categories) :
                        ~IsKnown(available_categories[i])}) >= 2

(* C10: after a run of _update with an active stack and compatible         *)
(* materials the published list has one row per available category, its    *)
(* categories being a permutation of the available ones, and it is the     *)
(* result for what the collaborators hold, whatever was published before.  *)

C10_OneRowPerCategory ==
    RecomputedRows =>
        /\ Len(items) = Len(available_categories)
        /\ \A c \in Categories :
               Count(intent_categories(items), c) = Count(available_categories, c)
        /\ items = _update(global_stack, materials_compatible, available_categories)

C10_Witness ==
    /\ RecomputedRows
    /\ event.signal = "containerRemoved"
    /\ Len(items) >= 2
    /\ Reordered
    /\ \E k \in 1..(Len(items) - 1) : items[k].weight = items[k + 1].weight

===========================================================================
